---- MODULE Spec2Model ----
(***************************************************************************)
(* structprep: the session scheduler and the per-session pipeline          *)
(* (pipeline.py), intensity normalization (intensity.py), target selection *)
(* (target.py), centered crop/pad (resample.py), slice extraction          *)
(* (slices.py) and shard packing (make_wds.py), as state machines.         *)
(*                                                                         *)
(* Each component has its own specification over its own variables; the    *)
(* other components' variables stay at their idle values:                  *)
(*   SpecCrop   crop_or_pad_center applied once and again, then            *)
(*              extract_slices on the resulting training tensor and mask   *)
(*   SpecBand   extract_slices / _brain_boundaries on an arbitrary mask    *)
(*   SpecTarget choose_session_target, one loop iteration per step         *)
(*   SpecWds    make_wds packing, one shard-loop iteration per step        *)
(*   SpecNorm   robust_normalize and its QC sidecar                        *)
(*   SpecSession  process_session, one stage or loop iteration per step,   *)
(*              on the files of one session's output directory, and the    *)
(*              discovery of make_wds on that directory afterwards         *)
(*   Spec       run_structprep, serial loop and process pool               *)
(***************************************************************************)
EXTENDS Integers, Sequences, FiniteSets, TLC

VARIABLES
    \* ---- crop_or_pad_center (resample.py) and the tensor it feeds to slices.py
    cpc,        \* "idle" | "input" | "once" | "twice" | "sliced"
    cin,        \* the input volume: [shape, v]
    ctarget,    \* target_shape (D,H,W)
    ckeep,      \* keep_depth
    cout1,      \* crop_or_pad_center(cin)
    cout2,      \* crop_or_pad_center(cout1)
    cmask,      \* the session mask on the grid of cin (before crop/pad)
    cmaskout,   \* crop_or_pad_center(cmask): the final mask
    cslices,    \* extract_slices(cout1, cmaskout, SliceSpec())
    \* ---- extract_slices (slices.py) on one volume/mask pair
    bpc,        \* "idle" | "loaded" | "extracted"
    bvolshape,  \* shape of the volume file
    bmask,      \* the mask file: [shape, v]
    bspec,      \* SliceSpec: [count, start_thr, end_thr, target_size]
    bout,       \* what extract_slices did
    \* ---- choose_session_target (target.py)
    tpc,        \* "idle" | "loop" | "done" | "AssertionError"
    tfiles,     \* ras_files: a list of file names
    ti,         \* position of the for loop (1-based), Len+1 after the loop
    tbest,      \* None, or [p, voxvol, matsz]
    \* ---- make_wds (make_wds.py), dry_run off
    wpc,        \* "idle" | "packing" | "done" | "ValueError"
    wsamples,   \* samples, in discovery order: [sub, files]
    wshard_size,
    wstart_index,
    wgroup,     \* group_by_subject
    wpos,       \* grouped: position in sorted(by_subject.keys()); flat: i
    wcur,       \* cur: the accumulation buffer (positions in wsamples)
    widx,       \* idx: the number of the next shard
    wshards,    \* the shards written so far: [idx, items, records]
    \* ---- run_structprep (pipeline.py)
    spc,        \* "idle" | "start" | "serial" | "pool" | "returned" | "raised"
    ssubjects,  \* subjects, as given
    ssessions,  \* sessions, as given (<<>> for None or an empty list)
    sjobs,      \* n_jobs
    swork,      \* work: the list of (sub, ses)
    si,         \* serial mode: position of "for sub, ses in work"
    sfut,       \* pool mode: the state of the future of each work item
    sdone,      \* pool mode: the futures as_completed has yielded
    sexec,      \* how often process_session has run to its end for each item
    sprinted,   \* the lines printed: [mark, sub, ses, item]
    \* ---- robust_normalize (intensity.py)
    npc,        \* "idle" | "called" | "stats" | "done"
    ndry,       \* dry_run
    nmask,      \* number of nonzero voxels of the mask file
    nvol,       \* number of voxels of the input volume
    nstd,       \* vals_clipped.std() of the input, in units of 1e-6
    nm,         \* m.sum(): the voxels the statistics are taken over
    nstats,     \* the sidecar written: [mask_voxels, warnings], or None
    \* ---- process_session (pipeline.py) on one session's output directory
    ppc,        \* "idle", a stage of process_session, "done" or "raised"
    ptree,      \* the session's input: [anat, files]
    pcfg,       \* cfg: [dry_run, n4, normalize]
    pruns,      \* how many times process_session has been started
    pfs,        \* the paths that exist under <output_dir>/<sub>/<ses>/anat
    pfs0,       \* pfs when this run of process_session started
    plog,       \* what this run has done: [op, src, dst, aux], in order
    pi,         \* position of the loop of the current stage
    pras,       \* ras_files, flattened in dict order
    ptarget,    \* target
    paligned,   \* aligned, flattened in dict order
    pref,       \* ref_img
    prefbias,   \* ref_bias
    pmask,      \* mask_path
    pmaskiso,   \* mask_iso
    ptrains,    \* the paths crop_or_pad_center returned in the volume loop
    pexc,       \* the exception process_session raised, or "none"
    pfound      \* what make_wds found in the session's final/, or NotRun

cropVars == <<cpc, cin, ctarget, ckeep, cout1, cout2, cmask, cmaskout, cslices>>
bandVars == <<bpc, bvolshape, bmask, bspec, bout>>

tgtVars == <<tpc, tfiles, ti, tbest>>
schedVars == <<spc, ssubjects, ssessions, sjobs, swork, si, sfut, sdone, sexec, sprinted>>
wdsVars == <<wpc, wsamples, wshard_size, wstart_index, wgroup, wpos, wcur, widx, wshards>>
normVars == <<npc, ndry, nmask, nvol, nstd, nm, nstats>>
sessVars == <<ppc, ptree, pcfg, pruns, pfs, pfs0, plog, pi, pras, ptarget, paligned,
              pref, prefbias, pmask, pmaskiso, ptrains, pexc, pfound>>

\* what each component leaves alone
notCrop == <<bandVars, tgtVars, wdsVars, schedVars, normVars, sessVars>>
notBand == <<cropVars, tgtVars, wdsVars, schedVars, normVars, sessVars>>
notTgt == <<cropVars, bandVars, wdsVars, schedVars, normVars, sessVars>>
notWds == <<cropVars, bandVars, tgtVars, schedVars, normVars, sessVars>>
notSched == <<cropVars, bandVars, tgtVars, wdsVars, normVars, sessVars>>
notNorm == <<cropVars, bandVars, tgtVars, wdsVars, schedVars, sessVars>>
notSess == <<cropVars, bandVars, tgtVars, wdsVars, schedVars, normVars>>

\* ------------------------------------------------------------------ bounds

\* largest extent of a volume axis in SpecCrop
MaxDim == 3
\* largest depth (axis 2 extent) of a mask in SpecBand
MaxDepth == 3
\* longest candidate list given to choose_session_target
MaxCands == 3
\* make_wds: most samples discovered, number of subjects, largest shard_size
MaxSamples == 3
NumSubjects == 2
MaxShardSize == 3
\* run_structprep: longest subject list, largest n_jobs
MaxSubjects == 2
MaxJobs == 2

\* ----------------------------------------------------------------- helpers

Max(a, b) == IF a >= b THEN a ELSE b
Min(a, b) == IF a <= b THEN a ELSE b
Abs(a) == IF a >= 0 THEN a ELSE -a
None == [kind |-> "None"]

\* the index set of an ndarray of the given 3-D shape (0-based, as numpy)
Idx(shape) == (0 .. shape[1] - 1) \X (0 .. shape[2] - 1) \X (0 .. shape[3] - 1)

\* ndarray.astype(np.float32) on integer-valued intensities: exact up to 2^24,
\* above it (below 2^25) only even integers are representable and an odd value,
\* halfway between its neighbours, rounds to the one with the even mantissa.
F32Exact == 16777216
AsFloat32(x) ==
    IF Abs(x) <= F32Exact \/ x % 2 = 0 THEN x
    ELSE IF (x + 1) % 4 = 0 THEN x + 1 ELSE x - 1

\* np.pad(data, ((b0,a0),(b1,a1),(b2,a2)), mode="constant", constant_values=0)
NpPad(data, before, after) ==
    LET s == data.shape
        ns == <<before[1] + s[1] + after[1],
                before[2] + s[2] + after[2],
                before[3] + s[3] + after[3]>>
    IN  [shape |-> ns,
         v |-> [p \in Idx(ns) |->
                  IF \A n \in 1..3 : p[n] >= before[n] /\ p[n] < before[n] + s[n]
                  THEN data.v[<<p[1] - before[1], p[2] - before[2], p[3] - before[3]>>]
                  ELSE 0]]

\* data[lo0:hi0, lo1:hi1, lo2:hi2] for non-negative bounds: Python clips each
\* bound to the axis length and an empty range has length 0.
NpSlice(data, lo, hi) ==
    LET s == data.shape
        l == [n \in 1..3 |-> Min(lo[n], s[n])]
        h == [n \in 1..3 |-> Min(hi[n], s[n])]
        ns == <<Max(h[1] - l[1], 0), Max(h[2] - l[2], 0), Max(h[3] - l[3], 0)>>
    IN  [shape |-> ns,
         v |-> [p \in Idx(ns) |-> data.v[<<p[1] + l[1], p[2] + l[2], p[3] + l[3]>>]]]

\* ------------------------------------------------- resample.crop_or_pad_center

\* tgt after "if keep_depth or tgt[0] <= 1: tgt[0] = cur[0]"
EffectiveTarget(cur, target_shape, keep_depth) ==
    IF keep_depth \/ target_shape[1] <= 1
    THEN <<cur[1], target_shape[2], target_shape[3]>>
    ELSE target_shape

\* the larger half first
PadBeforeCeil(pad) == (pad + 1) \div 2

\* pad_before = pad // 2
PadBefore(pad) == pad \div 2

\* a crop window that starts one voxel late
CropStartLate(cur2n, tgtn) == Max((cur2n - tgtn) \div 2, 0) + 1

\* start = np.maximum((cur2 - tgt) // 2, 0)
CropStart(cur2n, tgtn) == Max((cur2n - tgtn) \div 2, 0)

\* the array written by crop_or_pad_center (the non-dry-run path)
CropOrPadCenter(data, target_shape, keep_depth) ==
    LET cur == data.shape
        tgt == EffectiveTarget(cur, target_shape, keep_depth)
        pad == [n \in 1..3 |-> Max(tgt[n] - cur[n], 0)]
        keepD == keep_depth \/ tgt[1] = cur[1]
        pb == [n \in 1..3 |-> IF n = 1 /\ keepD THEN 0 ELSE PadBefore(pad[n])]
        pa == [n \in 1..3 |-> IF n = 1 /\ keepD THEN 0 ELSE pad[n] - PadBefore(pad[n])]
        padded == IF pad[1] + pad[2] + pad[3] > 0 THEN NpPad(data, pb, pa) ELSE data
        cur2 == padded.shape
        start == [n \in 1..3 |-> CropStart(cur2[n], tgt[n])]
        end == [n \in 1..3 |-> start[n] + tgt[n]]
        cropped ==
            IF keep_depth \/ tgt[1] = cur2[1]
            THEN NpSlice(padded, <<0, start[2], start[3]>>, <<cur2[1], end[2], end[3]>>)
            ELSE NpSlice(padded, start, end)
    IN  [shape |-> cropped.shape,
         v |-> [p \in Idx(cropped.shape) |-> AsFloat32(cropped.v[p])]]

\* ------------------------------------------------------------------ slices.py

\* SliceSpec defaults: count, start_thr and end_thr (in percent)
DefaultCount == 16
DefaultThrPct == 8
DefaultSliceSpec ==
    [count |-> DefaultCount, start_thr |-> DefaultThrPct,
     end_thr |-> DefaultThrPct, target_size |-> None]

\* float(max(0.0, min(1.0, thr))), thresholds in percent
ClampThr(pct) == Max(0, Min(100, pct))

\* number of True voxels of mask[:, :, z] > 0
SliceCount(mask, z) ==
    Cardinality({p \in Idx(mask.shape) : p[3] = z /\ mask.v[p] # 0})

\* coverage[z] >= thr, with coverage[z] = slice_mask.mean() (0.0 for an empty
\* slice) and thr = pct/100
CoverageAtLeast(mask, z, pct) ==
    LET size == mask.shape[1] * mask.shape[2]
    IN  IF size > 0 THEN SliceCount(mask, z) * 100 >= pct * size ELSE 0 >= pct

\* np.where(coverage >= thr)[0]
Qualifying(mask, pct) ==
    {z \in 0 .. mask.shape[3] - 1 : CoverageAtLeast(mask, z, pct)}

SetMin(S) == CHOOSE x \in S : \A y \in S : x <= y
SetMax(S) == CHOOSE x \in S : \A y \in S : x >= y

\* the last qualifying index taken for the start of the band
FirstIndexLast(S) == SetMax(S)

\* a = int(idx_start[0])
FirstIndex(S) == SetMin(S)
\* b = int(idx_end[-1])
LastIndex(S) == SetMax(S)

\* _brain_boundaries: None, or the band [a, b]
BrainBoundaries(mask, thr_start, thr_end) ==
    LET idx_start == Qualifying(mask, thr_start)
        idx_end == Qualifying(mask, thr_end)
    IN  IF idx_start = {} \/ idx_end = {} THEN None
        ELSE LET a == FirstIndex(idx_start)
                 b == LastIndex(idx_end)
             IN  IF b < a
                 THEN [kind |-> "band", a |-> Min(a, b), b |-> Max(a, b)]
                 ELSE [kind |-> "band", a |-> a, b |-> b]

\* consecutive indices from a on, without regard to the end of the band
IndicesBetweenArange(a, b, n) == [i \in 1..n |-> a + (i - 1)]

\* _indices_between: np.linspace(a, b, n, dtype=int) for 0 <= a <= b, n >= 1:
\* start + i*step with the last sample set to b, then cut down to an integer
\* (floor; the samples are not negative, so truncation is the same)
IndicesBetween(a, b, n) ==
    [i \in 1..n |->
        IF n = 1 THEN a
        ELSE IF i = n THEN b
        ELSE a + ((i - 1) * (b - a)) \div (n - 1)]

\* the shape of the stacks extract_slices returns: vol[:, :, z] stacked on a
\* new leading axis, resized to target_size when one is given and differs
SlicesShape(volshape, count, target_size) ==
    IF target_size # None
       /\ (volshape[1] # target_size.h \/ volshape[2] # target_size.w)
    THEN <<count, target_size.h, target_size.w>>
    ELSE <<count, volshape[1], volshape[2]>>

\* extract_slices: raises ValueError on a shape mismatch, returns None without
\* coverage, else the stacks (their shape), the indices and the band
ExtractSlices(volshape, mask, spec) ==
    IF volshape # mask.shape THEN [kind |-> "ValueError"]
    ELSE LET band == BrainBoundaries(mask, ClampThr(spec.start_thr), ClampThr(spec.end_thr))
         IN  IF band = None THEN None
             ELSE [kind |-> "ok",
                   z0 |-> band.a, z1 |-> band.b,
                   indices |-> IndicesBetween(band.a, band.b, spec.count),
                   slices_shape |-> SlicesShape(volshape, spec.count, spec.target_size)]

\* ------------------------------------------------------------------ target.py

\* The reoriented files of a session and what nib.load reads from each header:
\* zooms in micrometres (so voxel volumes are in 1e-9 mm^3) and the matrix.
\*   t1      1 mm isotropic, 256^3
\*   t1b     0.999 x 1 x 1.001 mm: a different volume, within np.isclose of t1
\*   t1c     the zooms of t1 on a smaller matrix
\*   t1d     the zooms and the matrix size of t1
\*   flair   0.8 x 0.8 x 3 mm
\*   t2      0.5 mm isotropic
RasFiles == {"t1", "t1b", "t1c", "t1d", "flair", "t2"}
Header(p) ==
    CASE p = "t1"    -> [zooms |-> <<1000, 1000, 1000>>, shape |-> <<256, 256, 256>>]
      [] p = "t1b"   -> [zooms |-> <<999, 1000, 1001>>,  shape |-> <<176, 256, 256>>]
      [] p = "t1c"   -> [zooms |-> <<1000, 1000, 1000>>, shape |-> <<176, 256, 256>>]
      [] p = "t1d"   -> [zooms |-> <<1000, 1000, 1000>>, shape |-> <<256, 256, 256>>]
      [] p = "flair" -> [zooms |-> <<800, 800, 3000>>,   shape |-> <<288, 288, 60>>]
      [] p = "t2"    -> [zooms |-> <<500, 500, 500>>,    shape |-> <<320, 320, 320>>]

\* voxvol = float(np.prod(zooms))
VoxVol(p) == Header(p).zooms[1] * Header(p).zooms[2] * Header(p).zooms[3]
\* matsz = int(np.prod(img.shape[:3]))
MatSz(p) == Header(p).shape[1] * Header(p).shape[2] * Header(p).shape[3]

\* np.isclose(a, b) with its defaults rtol = 1e-5, atol = 1e-8 (mm^3):
\* |a - b| <= atol + rtol * |b|, here in units of 1e-9 mm^3
IscloseRtolInv == 100000
IscloseAtol == 10
IsClose(a, b) == Abs(a - b) <= (IscloseAtol * IscloseRtolInv + Abs(b)) \div IscloseRtolInv

\* a candidate that is larger, not smaller, takes over
ReplacesBestLarger(voxvol, matsz, best) ==
    \/ best = None
    \/ voxvol > best.voxvol
    \/ (IsClose(voxvol, best.voxvol) /\ matsz > best.matsz)

\* the condition under which the loop body replaces best
ReplacesBest(voxvol, matsz, best) ==
    \/ best = None
    \/ voxvol < best.voxvol
    \/ (IsClose(voxvol, best.voxvol) /\ matsz > best.matsz)

\* injective sequences over S of length at most n
RECURSIVE SeqsUpTo(_, _)
SeqsUpTo(S, n) ==
    IF n = 0 THEN {<<>>}
    ELSE LET shorter == SeqsUpTo(S, n - 1)
         IN  shorter \cup
             {Append(q, x) : q \in {r \in shorter : Len(r) = n - 1}, x \in S}
Injective(q) == \A i \in 1..Len(q), j \in 1..Len(q) : q[i] = q[j] => i = j

TgtIdle == tpc = "idle" /\ tfiles = <<>> /\ ti = 0 /\ tbest = None

TgtInit ==
    /\ tpc = "loop"
    /\ tfiles \in {q \in SeqsUpTo(RasFiles, MaxCands) : Injective(q)}
    /\ ti = 1
    /\ tbest = None

\* one iteration of "for p in ras_files"
TargetStep ==
    /\ tpc = "loop" /\ ti <= Len(tfiles)
    /\ LET p == tfiles[ti]
       IN  tbest' = IF ReplacesBest(VoxVol(p), MatSz(p), tbest)
                    THEN [p |-> p, voxvol |-> VoxVol(p), matsz |-> MatSz(p)]
                    ELSE tbest
    /\ ti' = ti + 1
    /\ UNCHANGED <<tpc, tfiles, notTgt>>

\* "assert best is not None; return best"
TargetReturn ==
    /\ tpc = "loop" /\ ti > Len(tfiles)
    /\ tpc' = IF tbest # None THEN "done" ELSE "AssertionError"
    /\ UNCHANGED <<tfiles, ti, tbest, notTgt>>

TgtNext == TargetStep \/ TargetReturn

\* ---------------------------------------------------------------- make_wds.py

\* The files a discovered sample points at (its train volume and the session's
\* final mask), by what they hold:
\*   "brain"     volume and mask on one grid, the mask covering it
\*   "empty"     volume and mask on one grid, the mask all zero
\*   "mismatch"  a mask on a grid other than the volume's
SampleFiles == {"brain", "empty", "mismatch"}
SampleVolShape(files) == <<2, 2, 2>>
SampleMask(files) ==
    CASE files = "brain"    -> [shape |-> <<2, 2, 2>>, v |-> [p \in Idx(<<2, 2, 2>>) |-> 1]]
      [] files = "empty"    -> [shape |-> <<2, 2, 2>>, v |-> [p \in Idx(<<2, 2, 2>>) |-> 0]]
      [] files = "mismatch" -> [shape |-> <<2, 2, 3>>, v |-> [p \in Idx(<<2, 2, 3>>) |-> 1]]

\* out = extract_slices(vol, msk, spec) for sample number it
ExtractItem(it) ==
    ExtractSlices(SampleVolShape(wsamples[it].files), SampleMask(wsamples[it].files),
                  DefaultSliceSpec)

\* a loop that stops at the first sample without coverage
RECURSIVE WriteItemsBreak(_)
WriteItemsBreak(items) ==
    IF items = <<>> THEN [records |-> <<>>, raised |-> FALSE]
    ELSE LET out == ExtractItem(Head(items))
         IN  IF out.kind = "ValueError" THEN [records |-> <<>>, raised |-> TRUE]
             ELSE IF out = None THEN [records |-> <<>>, raised |-> FALSE]
             ELSE LET rest == WriteItemsBreak(Tail(items))
                  IN  [records |-> <<Head(items)>> \o rest.records,
                       raised |-> rest.raised]

\* the body of write_shard's "for it in items": the records written, and
\* whether extract_slices raised (which ends the loop and leaves write_shard)
RECURSIVE WriteItems(_)
WriteItems(items) ==
    IF items = <<>> THEN [records |-> <<>>, raised |-> FALSE]
    ELSE LET out == ExtractItem(Head(items))
         IN  IF out.kind = "ValueError" THEN [records |-> <<>>, raised |-> TRUE]
             ELSE LET rest == WriteItems(Tail(items))
                  IN  [records |-> (IF out = None THEN <<>> ELSE <<Head(items)>>)
                                      \o rest.records,
                       raised |-> rest.raised]

\* write_shard(shard_idx, items) on the shards written so far: nothing for an
\* empty list, else the tar file with the records written before any raise
WriteShard(shards, shard_idx, items) ==
    IF items = <<>> THEN [shards |-> shards, raised |-> FALSE]
    ELSE LET w == WriteItems(items)
         IN  [shards |-> Append(shards, [idx |-> shard_idx, items |-> items,
                                         records |-> w.records]),
              raised |-> w.raised]

\* by_subject[sub]: the samples of sub, in discovery order
RECURSIVE Positions(_, _)
Positions(sub, n) ==
    IF n = 0 THEN <<>>
    ELSE Positions(sub, n - 1) \o (IF wsamples[n].sub = sub THEN <<n>> ELSE <<>>)
BySubject(sub) == Positions(sub, Len(wsamples))

\* by_subject.keys() in the order the subjects were first discovered
RECURSIVE FirstSeen(_)
FirstSeen(n) ==
    IF n = 0 THEN <<>>
    ELSE LET before == FirstSeen(n - 1)
         IN  IF \E k \in 1..Len(before) : before[k] = wsamples[n].sub
             THEN before ELSE Append(before, wsamples[n].sub)
DiscoveredSubjects == FirstSeen(Len(wsamples))

\* ascending sequence of a set of numbers
RECURSIVE Ascending(_)
Ascending(S) ==
    IF S = {} THEN <<>> ELSE <<SetMin(S)>> \o Ascending(S \ {SetMin(S)})

\* the subjects taken in the order of discovery
UnsortedSubjects == DiscoveredSubjects

\* sorted(by_subject.keys()); subject n stands for the n-th id in sorted order
SortedSubjects == Ascending({wsamples[n].sub : n \in 1..Len(wsamples)})

\* flushing only once the buffer alone is over the capacity
MustFlushLate(cur, subj_items, shard_size) ==
    cur # <<>> /\ Len(cur) > shard_size

\* "if cur and (len(cur) + len(subj_items) > shard_size)"
MustFlush(cur, subj_items, shard_size) ==
    cur # <<>> /\ Len(cur) + Len(subj_items) > shard_size

\* "if len(subj_items) > shard_size and not cur"
OwnShard(cur, subj_items, shard_size) ==
    Len(subj_items) > shard_size /\ cur = <<>>

\* a chunk that runs one sample into the next
FlatChunkLong(i, shard_size) ==
    [k \in 1 .. Min(i + shard_size + 1, Len(wsamples)) - i |-> i + k]

\* samples[i : i + shard_size], as positions in samples
FlatChunk(i, shard_size) ==
    [k \in 1 .. Min(i + shard_size, Len(wsamples)) - i |-> i + k]

StartIndexes == {1, 5}

WdsIdle ==
    /\ wpc = "idle" /\ wsamples = <<>> /\ wshard_size = 1 /\ wstart_index = 1
    /\ wgroup = FALSE /\ wpos = 0 /\ wcur = <<>> /\ widx = 1 /\ wshards = <<>>

WdsInit ==
    /\ wpc = "packing"
    /\ wsamples \in UNION {[1..n -> [sub : 1..NumSubjects, files : SampleFiles]] :
                            n \in 0..MaxSamples}
    /\ wshard_size \in 1..MaxShardSize
    /\ wstart_index \in StartIndexes
    /\ wgroup \in BOOLEAN
    /\ wpos = IF wgroup THEN 1 ELSE 0
    /\ wcur = <<>>
    /\ widx = wstart_index
    /\ wshards = <<>>

\* one iteration of "for sub in sorted(by_subject.keys())"
GroupedStep ==
    /\ wpc = "packing" /\ wgroup /\ wpos <= Len(SortedSubjects)
    /\ LET subj_items == BySubject(SortedSubjects[wpos])
           flush == MustFlush(wcur, subj_items, wshard_size)
           w1 == IF flush THEN WriteShard(wshards, widx, wcur)
                 ELSE [shards |-> wshards, raised |-> FALSE]
           idx1 == IF flush THEN widx + 1 ELSE widx
           cur1 == IF flush THEN <<>> ELSE wcur
           own == OwnShard(cur1, subj_items, wshard_size)
           w2 == IF own THEN WriteShard(w1.shards, idx1, subj_items)
                 ELSE [shards |-> w1.shards, raised |-> FALSE]
       IN  IF w1.raised
           THEN /\ wpc' = "ValueError" /\ wshards' = w1.shards
                /\ UNCHANGED <<wpos, wcur, widx>>
           ELSE IF w2.raised
           THEN /\ wpc' = "ValueError" /\ wshards' = w2.shards
                /\ wcur' = cur1 /\ widx' = idx1
                /\ UNCHANGED wpos
           ELSE /\ wshards' = w2.shards
                /\ widx' = IF own THEN idx1 + 1 ELSE idx1
                /\ wcur' = IF own THEN cur1 ELSE cur1 \o subj_items
                /\ wpos' = wpos + 1
                /\ UNCHANGED wpc
    /\ UNCHANGED <<wsamples, wshard_size, wstart_index, wgroup, notWds>>

\* after the loop: "if cur: write_shard(idx, cur); idx += 1", then return
GroupedFinish ==
    /\ wpc = "packing" /\ wgroup /\ wpos > Len(SortedSubjects)
    /\ LET w == WriteShard(wshards, widx, wcur)
       IN  /\ wshards' = w.shards
           /\ wpc' = IF w.raised THEN "ValueError" ELSE "done"
           /\ widx' = IF wcur # <<>> /\ ~w.raised THEN widx + 1 ELSE widx
    /\ UNCHANGED <<wsamples, wshard_size, wstart_index, wgroup, wpos, wcur, notWds>>

\* one iteration of "for i in range(0, len(samples), shard_size)"
FlatStep ==
    /\ wpc = "packing" /\ ~wgroup /\ wpos < Len(wsamples)
    /\ LET w == WriteShard(wshards, widx, FlatChunk(wpos, wshard_size))
       IN  /\ wshards' = w.shards
           /\ IF w.raised
              THEN wpc' = "ValueError" /\ UNCHANGED <<wpos, widx>>
              ELSE /\ widx' = widx + 1 /\ wpos' = wpos + wshard_size
                   /\ UNCHANGED wpc
    /\ UNCHANGED <<wsamples, wshard_size, wstart_index, wgroup, wcur, notWds>>

\* the range is exhausted: make_wds returns
FlatFinish ==
    /\ wpc = "packing" /\ ~wgroup /\ wpos >= Len(wsamples)
    /\ wpc' = "done"
    /\ UNCHANGED <<wsamples, wshard_size, wstart_index, wgroup, wpos, wcur, widx,
                   wshards, notWds>>

WdsNext == GroupedStep \/ GroupedFinish \/ FlatStep \/ FlatFinish

\* ---------------------------------------------------------------- pipeline.py

\* The input tree the runs work on, per subject and session:
\*   "complete"   anat/ holds a requested modality and every tool succeeds
\*   "tool_fails" anat/ holds a requested modality, mri_coreg exits nonzero
\*   "no_files"   anat/ holds no file of a requested modality
\*   "no_anat"    the session directory has no anat/
\*   "absent"     there is no such session directory
SubjectIds == {"sub-01", "sub-02", "sub-03"}
SessionIds == <<"ses-01", "ses-02">>
SessionDir(sub, ses) ==
    CASE sub = "sub-01" /\ ses = "ses-01" -> "complete"
      [] sub = "sub-01" /\ ses = "ses-02" -> "tool_fails"
      [] sub = "sub-02" /\ ses = "ses-01" -> "no_files"
      [] sub = "sub-02" /\ ses = "ses-02" -> "no_anat"
      [] OTHER -> "absent"

\* bids.find_sessions: the ses-* directories of the subject, sorted
FindSessions(sub) ==
    SelectSeq(SessionIds, LAMBDA ses : SessionDir(sub, ses) # "absent")

\* "for sub in subjects: for ses in (find_sessions(...) if not sessions else
\* list(sessions)): work.append((sub, ses))"
RECURSIVE BuildWork(_, _)
BuildWork(subjects, sessions) ==
    IF subjects = <<>> THEN <<>>
    ELSE LET sub == Head(subjects)
             ses_list == IF sessions = <<>> THEN FindSessions(sub) ELSE sessions
         IN  [n \in 1..Len(ses_list) |-> [sub |-> sub, ses |-> ses_list[n]]]
             \o BuildWork(Tail(subjects), sessions)

\* process_session(cfg, sub, ses): "ok" when it returns, else what it raises
ProcessSession(sub, ses) ==
    CASE SessionDir(sub, ses) \in {"absent", "no_anat"} -> "FileNotFoundError"
      [] SessionDir(sub, ses) = "no_files" -> "FileNotFoundError"
      [] SessionDir(sub, ses) = "tool_fails" -> "CalledProcessError"
      [] OTHER -> "ok"

\* out_anat = Path(cfg.output_dir) / sub / ses / "anat", the directory that
\* holds the session's work/ and final/
OutAnat(sub, ses) == <<sub, ses, "anat">>

\* process_session gets past its input checks and creates and fills work/ and
\* final/ under out_anat
WritesOutput(sub, ses) == SessionDir(sub, ses) \in {"complete", "tool_fails"}

\* a handler for missing inputs only
CaughtIfMissing(exc) == exc = "FileNotFoundError"

\* "except Exception as e": FileNotFoundError and CalledProcessError are
\* Exceptions
Caught(exc) == exc \in {"FileNotFoundError", "CalledProcessError"}

\* max_workers = max(1, n_jobs)
MaxWorkers == Max(1, sjobs)

\* the line printed for work item k whose process_session ended as res
Line(k, res) ==
    [mark |-> IF res = "ok" THEN "Completed" ELSE "Failed",
     sub |-> swork[k].sub, ses |-> swork[k].ses, item |-> k]

\* sessions as given: None or empty, or a list of ids, which the command line
\* does not keep from naming an id twice
SessionLists ==
    {<<>>, <<"ses-01">>, <<"ses-02">>, <<"ses-01", "ses-02">>, <<"ses-02", "ses-01">>,
     <<"ses-01", "ses-01">>}

SchedIdle ==
    /\ spc = "idle" /\ ssubjects = <<>> /\ ssessions = <<>> /\ sjobs = 0
    /\ swork = <<>> /\ si = 0 /\ sfut = <<>> /\ sdone = {} /\ sexec = <<>>
    /\ sprinted = <<>>

SchedInit ==
    /\ spc = "start"
    /\ ssubjects \in SeqsUpTo(SubjectIds, MaxSubjects)
    /\ ssessions \in SessionLists
    /\ sjobs \in 0..MaxJobs
    /\ swork = <<>> /\ si = 0 /\ sfut = <<>> /\ sdone = {} /\ sexec = <<>>
    /\ sprinted = <<>>

\* run_structprep up to the dispatch: the work list, "if not work: return",
\* and in pool mode the submission of every item
Enumerate ==
    /\ spc = "start"
    /\ LET work == BuildWork(ssubjects, ssessions)
       IN  /\ swork' = work
           /\ sexec' = [k \in 1..Len(work) |-> 0]
           /\ IF work = <<>>
              THEN spc' = "returned" /\ UNCHANGED <<si, sfut>>
              ELSE IF MaxWorkers = 1
              THEN spc' = "serial" /\ si' = 1 /\ UNCHANGED sfut
              ELSE /\ spc' = "pool" /\ UNCHANGED si
                   /\ sfut' = [k \in 1..Len(work) |-> "pending"]
    /\ UNCHANGED <<ssubjects, ssessions, sjobs, sdone, sprinted, notSched>>

\* serial mode: one iteration of "for sub, ses in work" with its try/except
SerialItem ==
    /\ spc = "serial" /\ si <= Len(swork)
    /\ LET res == ProcessSession(swork[si].sub, swork[si].ses)
       IN  /\ sexec' = [sexec EXCEPT ![si] = @ + 1]
           /\ IF res = "ok" \/ Caught(res)
              THEN /\ sprinted' = Append(sprinted, Line(si, res))
                   /\ si' = si + 1
                   /\ UNCHANGED spc
              ELSE spc' = "raised" /\ UNCHANGED <<sprinted, si>>
    /\ UNCHANGED <<ssubjects, ssessions, sjobs, swork, sfut, sdone, notSched>>

\* serial mode: the loop is over, run_structprep returns
SerialReturn ==
    /\ spc = "serial" /\ si > Len(swork)
    /\ spc' = "returned"
    /\ UNCHANGED <<ssubjects, ssessions, sjobs, swork, si, sfut, sdone, sexec,
                   sprinted, notSched>>

Running == {k \in 1..Len(sfut) : sfut[k] = "running"}
Pending == {k \in 1..Len(sfut) : sfut[k] = "pending"}

\* pool mode: a free worker takes the oldest submitted item
WorkerTake ==
    /\ spc = "pool" /\ Pending # {} /\ Cardinality(Running) < MaxWorkers
    /\ sfut' = [sfut EXCEPT ![SetMin(Pending)] = "running"]
    /\ UNCHANGED <<spc, ssubjects, ssessions, sjobs, swork, si, sdone, sexec,
                   sprinted, notSched>>

\* pool mode: a worker's process_session ends; its result or exception is
\* stored in the future
WorkerFinish(k) ==
    /\ spc = "pool" /\ sfut[k] = "running"
    /\ sfut' = [sfut EXCEPT ![k] = ProcessSession(swork[k].sub, swork[k].ses)]
    /\ sexec' = [sexec EXCEPT ![k] = @ + 1]
    /\ UNCHANGED <<spc, ssubjects, ssessions, sjobs, swork, si, sdone, sprinted,
                   notSched>>

\* pool mode: as_completed yields a finished future; "sub, ses = futs[fut]",
\* fut.result() in its try/except
Collect(k) ==
    /\ spc = "pool" /\ k \notin sdone /\ sfut[k] \notin {"pending", "running"}
    /\ sdone' = sdone \cup {k}
    /\ IF sfut[k] = "ok" \/ Caught(sfut[k])
       THEN sprinted' = Append(sprinted, Line(k, sfut[k])) /\ UNCHANGED spc
       ELSE spc' = "raised" /\ UNCHANGED sprinted
    /\ UNCHANGED <<ssubjects, ssessions, sjobs, swork, si, sfut, sexec, notSched>>

\* pool mode: as_completed is exhausted, the executor shuts down, return
PoolReturn ==
    /\ spc = "pool" /\ sdone = 1..Len(swork)
    /\ spc' = "returned"
    /\ UNCHANGED <<ssubjects, ssessions, sjobs, swork, si, sfut, sdone, sexec,
                   sprinted, notSched>>

Next ==
    \/ Enumerate
    \/ SerialItem
    \/ SerialReturn
    \/ WorkerTake
    \/ \E k \in 1..Len(swork) : WorkerFinish(k)
    \/ \E k \in 1..Len(swork) : Collect(k)
    \/ PoolReturn

\* ----------------------------------------------------------- SpecCrop

\* a source volume whose voxel <<i,j,k>> holds a value that names it
Volume(shape, base) ==
    [shape |-> shape, v |-> [p \in Idx(shape) |-> base + p[1] + 10 * p[2] + 100 * p[3]]]

\* the brain mask on the same grid, here covering the whole source volume
FullMask(shape) == [shape |-> shape, v |-> [p \in Idx(shape) |-> 1]]

CropIdle ==
    /\ cpc = "idle" /\ cin = None /\ ctarget = <<0, 0, 0>> /\ ckeep = FALSE
    /\ cout1 = None /\ cout2 = None /\ cmask = None /\ cmaskout = None
    /\ cslices = None

CropInit ==
    /\ cpc = "input"
    /\ \E shape \in (1..MaxDim) \X (1..MaxDim) \X (1..MaxDim), base \in {1, F32Exact} :
          /\ cin = Volume(shape, base)
          /\ cmask = FullMask(shape)
    /\ ctarget \in (0..MaxDim) \X (1..MaxDim) \X (1..MaxDim)
    /\ ckeep \in BOOLEAN
    /\ cout1 = None /\ cout2 = None /\ cmaskout = None /\ cslices = None

\* process_session: train = crop_or_pad_center(iso, ...) and the final mask
\* tmp_mask = crop_or_pad_center(mask_iso, ...) with the same target and flag
CropOnce ==
    /\ cpc = "input"
    /\ cout1' = CropOrPadCenter(cin, ctarget, ckeep)
    /\ cmaskout' = CropOrPadCenter(cmask, ctarget, ckeep)
    /\ cpc' = "once"
    /\ UNCHANGED <<cin, ctarget, ckeep, cout2, cmask, cslices, notCrop>>

\* crop_or_pad_center reapplied to its own output
CropAgain ==
    /\ cpc = "once"
    /\ cout2' = CropOrPadCenter(cout1, ctarget, ckeep)
    /\ cpc' = "twice"
    /\ UNCHANGED <<cin, ctarget, ckeep, cout1, cmask, cmaskout, cslices, notCrop>>

\* make_wds.write_shard: extract_slices(final train volume, final mask, spec)
ExtractFromTensor ==
    /\ cpc = "once"
    /\ cslices' = ExtractSlices(cout1.shape, cmaskout, DefaultSliceSpec)
    /\ cpc' = "sliced"
    /\ UNCHANGED <<cin, ctarget, ckeep, cout1, cout2, cmask, cmaskout, notCrop>>

CropNext == CropOnce \/ CropAgain \/ ExtractFromTensor

\* ----------------------------------------------------------- SpecBand

BandIdle ==
    /\ bpc = "idle" /\ bvolshape = <<0, 0, 0>> /\ bmask = None
    /\ bspec = DefaultSliceSpec /\ bout = None

\* thresholds as given on the command line or by a caller, in percent
ThresholdsPct == {-50, 0, 8, 50, 75, 100, 150}
Counts == {1, 2, 3, 4, 5}

\* in-plane extent of the masks of SpecBand
BandShape(d) == <<1, 2, d>>

BandInit ==
    /\ bpc = "loaded"
    /\ \E d \in 1..MaxDepth :
          /\ bmask \in [shape : {BandShape(d)}, v : [Idx(BandShape(d)) -> {0, 1}]]
          /\ bvolshape \in {BandShape(d), BandShape(d + 1)}
    /\ bspec \in [count : Counts, start_thr : ThresholdsPct,
                  end_thr : ThresholdsPct, target_size : {None}]
    /\ bout = None

Extract ==
    /\ bpc = "loaded"
    /\ bout' = ExtractSlices(bvolshape, bmask, bspec)
    /\ bpc' = "extracted"
    /\ UNCHANGED <<bvolshape, bmask, bspec, notBand>>

\* ------------------------------------------------- intensity.robust_normalize

\* "if m.sum() < 10": below this the statistics fall back to the whole volume
FallbackBelow == 10
\* "if stats["mask_voxels"] < 10000"
SmallMaskBelow == 10000
\* "if frac > 0.9", in percent
OverCoveragePct == 90
\* "std = float(vals_clipped.std() + 1e-6)" and "if std < 1e-4", in units of 1e-6
StdEpsilon == 1
LowStdBelow == 100

\* the voxel counts of the volumes and masks robust_normalize is run on
VolumeSizes == {8, 1000, 9000, 10000, 11000, 20000}
MaskSizes == {0, 1, 5, 9, 10, 11, 900, 999, 8100, 8101, 9000, 9001, 9900, 9901,
              9999, 10000, 10001, 18000, 18001, 20000}
StdValues == {0, 98, 99, 100, 250000}

\* "if m.sum() < 10: m = np.ones_like(data, dtype=bool)": m.sum() afterwards
MaskUsed(mask_voxels, vol_vox) ==
    IF mask_voxels < FallbackBelow THEN vol_vox ELSE mask_voxels

\* the heuristic warnings, from stats["mask_voxels"], vol_vox and std
Warnings(mask_voxels, vol_vox, std) ==
    (IF mask_voxels < SmallMaskBelow THEN {"Very small mask voxel count"} ELSE {})
    \cup (IF mask_voxels * 100 > OverCoveragePct * Max(1, vol_vox)
          THEN {"Mask covers >90% of volume"} ELSE {})
    \cup (IF std < LowStdBelow
          THEN {"Low intensity variance after normalization"} ELSE {})

NormIdle ==
    /\ npc = "idle" /\ ndry = FALSE /\ nmask = 0 /\ nvol = 0 /\ nstd = 0
    /\ nm = 0 /\ nstats = None

NormInit ==
    /\ npc = "called"
    /\ ndry \in BOOLEAN
    /\ nvol \in VolumeSizes
    /\ nmask \in {k \in MaskSizes : k <= nvol}
    /\ nstd \in StdValues
    /\ nm = 0
    /\ nstats = None

\* dry_run returns the output path at once; else load the volume and the mask,
\* fall back to the whole volume for a mask of fewer than 10 voxels, and write
\* the normalized volume
NormStats ==
    /\ npc = "called"
    /\ IF ndry
       THEN npc' = "done" /\ UNCHANGED nm
       ELSE npc' = "stats" /\ nm' = MaskUsed(nmask, nvol)
    /\ UNCHANGED <<ndry, nmask, nvol, nstd, nstats, notNorm>>

\* the stats dictionary with its warnings, written as the JSON sidecar
NormQC ==
    /\ npc = "stats"
    /\ nstats' = [mask_voxels |-> nm,
                   warnings |-> Warnings(nm, nvol, nstd + StdEpsilon)]
    /\ npc' = "done"
    /\ UNCHANGED <<ndry, nmask, nvol, nstd, nm, notNorm>>

NormNext == NormStats \/ NormQC

\* ------------------------------------------------- pipeline.process_session

\* how many times process_session is run on the session's output directory
MaxRuns == 2

\* A path under <output_dir>/<sub>/<ses>/anat: the directory it is in, the
\* input file its name starts with, and the suffixes its name has gathered
\* (every stage names its output by replacing ".nii.gz" with its own suffix).
InDir(dir, base, tags) == [dir |-> dir, base |-> base, tags |-> tags]
NoPath == InDir("none", "", <<>>)
AnatDir == InDir("anat", "", <<>>)
FinalDir == InDir("final", "", <<>>)
WorkDir == InDir("work", "", <<>>)
\* out_dir / in_file.name.replace(".nii.gz", "_desc-<tag>.nii.gz")
Derived(p, dir, tag) == InDir(dir, p.base, Append(p.tags, tag))
\* the file of the input tree
InputPath(f) == InDir("input", f, <<>>)
\* name.replace("_desc-ras.nii.gz", "_space-sesTarget.nii.gz")
AlignedName(mov) == InDir("work", mov.base, <<"sesTarget">>)
\* final/<sub>_<ses>_desc-brain_mask_space-iso<iso_mm>mm.nii.gz
MaskFinalPath == InDir("final", "", <<"brain_mask", "iso">>)

\* The anat files of the session's input, named by modality and run, and the
\* header nib.load reads from the reoriented file of each.
SessionFiles == {"T1w_1", "T1w_2", "T2w_1", "FLAIR_1"}
Modality(f) ==
    CASE f \in {"T1w_1", "T1w_2"} -> "T1w"
      [] f = "T2w_1" -> "T2w"
      [] f = "FLAIR_1" -> "FLAIR"
RasHeader(f) ==
    CASE f = "T1w_1" -> "t1"
      [] f = "T1w_2" -> "t1c"
      [] f = "T2w_1" -> "t2"
      [] f = "FLAIR_1" -> "flair"

\* list_modality_files(in_anat, cfg.modalities), flattened: modalities in the
\* order requested (T1w, T2w, FLAIR), the files of each sorted; anat = FALSE
\* when the session has no anat directory
InputTrees ==
    {[anat |-> FALSE, files |-> <<>>], [anat |-> TRUE, files |-> <<>>]}
    \cup [anat : {TRUE},
          files : {<<"T1w_1">>, <<"T1w_1", "T1w_2">>, <<"T1w_1", "T2w_1">>,
                   <<"T2w_1", "FLAIR_1">>, <<"T1w_1", "T2w_1", "FLAIR_1">>}]

Configs == [dry_run : BOOLEAN, n4 : BOOLEAN, normalize : BOOLEAN]

\* an entry of the run's record: the operation, what it read and wrote, the
\* mask it used, and whether it succeeded
Ev(op, src, dst, aux, ok) == [op |-> op, src |-> src, dst |-> dst, aux |-> aux, ok |-> ok]

\* the work mask removed as soon as the final mask is written
StageAfterCleanupFirst(stage) ==
    CASE stage = "start" -> "ras"
      [] stage = "ras" -> "target"
      [] stage = "target" -> "coreg"
      [] stage = "coreg" -> "ref"
      [] stage = "ref" -> "mask"
      [] stage = "mask" -> "finalmask"
      [] stage = "finalmask" -> "cleanup"
      [] stage = "cleanup" -> "volumes"
      [] stage = "volumes" -> "done"

\* the order of the blocks of process_session
StageAfter(stage) ==
    CASE stage = "start" -> "ras"
      [] stage = "ras" -> "target"
      [] stage = "target" -> "coreg"
      [] stage = "coreg" -> "ref"
      [] stage = "ref" -> "mask"
      [] stage = "mask" -> "finalmask"
      [] stage = "finalmask" -> "volumes"
      [] stage = "volumes" -> "cleanup"
      [] stage = "cleanup" -> "done"

\* choose_session_target over the reoriented files from position i on
RECURSIVE BestTarget(_, _, _)
BestTarget(ras, i, best) ==
    IF i > Len(ras) THEN best
    ELSE LET h == RasHeader(ras[i].base)
         IN  BestTarget(ras, i + 1,
                 IF ReplacesBest(VoxVol(h), MatSz(h), best)
                 THEN [p |-> ras[i], voxvol |-> VoxVol(h), matsz |-> MatSz(h)]
                 ELSE best)

\* ---- make_wds discovery on the session's output directory (make_wds.py)
\* The suffixes of the model's paths stand for these pieces of a file name:
\* "brain_mask" = _desc-brain_mask, "iso" = _space-iso<iso_mm>mm,
\* "iso_mask" = _space-iso<iso_mm>mm_desc-mask, "train" = _desc-train, each
\* before the closing .nii.gz.

\* make_wds has not looked at the directory
NotRun == [run |-> FALSE, mods |-> {}, samples |-> {}]

\* the modalities argument; {} for None (no filter)
ModalityFilters == {{}, {"T1w"}, {"T2w", "FLAIR"}}

\* (anat / "final").glob("*_desc-brain_mask_space-iso*mm.nii.gz")
MaskGlob(p) ==
    /\ p.dir = "final"
    /\ \E n \in 1..(Len(p.tags) - 1) :
          /\ p.tags[n] = "brain_mask"
          /\ p.tags[n + 1] \in {"iso", "iso_mask"}
          /\ p.tags[Len(p.tags)] = "iso"

\* (anat / "final").glob("*_desc-train.nii.gz")
TrainGlob(p) == p.dir = "final" /\ p.tags # <<>> /\ p.tags[Len(p.tags)] = "train"

\* "_desc-mask_" in p.name
HasDescMask(p) == \E n \in 1..(Len(p.tags) - 1) : p.tags[n] = "iso_mask"

\* infer_modality(path)
InferModality(p) == IF p.base \in SessionFiles THEN Modality(p.base) ELSE "UNK"

\* The samples make_wds gathers for the session from the files fs: none
\* without the anat directory, a mask or a training tensor; else one per
\* training tensor the modality filter keeps, each with masks[0]. (Only the
\* moved final mask can match the mask pattern in final/, so masks[0] is the
\* one element of masks.)
FindSamples(fs, mods) ==
    LET masks == {p \in fs : MaskGlob(p)}
        trains == {p \in fs : TrainGlob(p) /\ ~HasDescMask(p)}
        kept == IF mods = {} THEN trains
                ELSE {p \in trains : InferModality(p) \in mods}
    IN  IF AnatDir \notin fs \/ masks = {} \/ trains = {} THEN {}
        ELSE {[train |-> t, mask |-> CHOOSE m \in masks : TRUE] : t \in kept}

SessIdle ==
    /\ ppc = "idle" /\ ptree = [anat |-> FALSE, files |-> <<>>]
    /\ pcfg = [dry_run |-> FALSE, n4 |-> FALSE, normalize |-> FALSE]
    /\ pruns = 0 /\ pfs = {} /\ pfs0 = {} /\ plog = <<>> /\ pi = 0
    /\ pras = <<>> /\ ptarget = NoPath /\ paligned = <<>> /\ pref = NoPath
    /\ prefbias = NoPath /\ pmask = NoPath /\ pmaskiso = NoPath
    /\ ptrains = <<>> /\ pexc = "none" /\ pfound = NotRun

\* the first run, on an output directory that holds nothing for the session
SessInit ==
    /\ ppc = "start"
    /\ ptree \in InputTrees
    /\ pcfg \in Configs
    /\ pruns = 1 /\ pfs = {} /\ pfs0 = {} /\ plog = <<>> /\ pi = 0
    /\ pras = <<>> /\ ptarget = NoPath /\ paligned = <<>> /\ pref = NoPath
    /\ prefbias = NoPath /\ pmask = NoPath /\ pmaskiso = NoPath
    /\ ptrains = <<>> /\ pexc = "none" /\ pfound = NotRun

\* the anat check, the discovery of the files, and the creation of final/ and
\* work/ (mkdir(parents=True, exist_ok=True), whatever cfg.dry_run is)
SessStart ==
    /\ ppc = "start"
    /\ IF ~ptree.anat \/ ptree.files = <<>>
       THEN /\ ppc' = "raised" /\ pexc' = "FileNotFoundError"
            /\ UNCHANGED <<pfs, pi>>
       ELSE /\ pfs' = pfs \cup {AnatDir, FinalDir, WorkDir}
            /\ ppc' = StageAfter("start") /\ pi' = 1
            /\ UNCHANGED pexc
    /\ UNCHANGED <<ptree, pcfg, pruns, pfs0, plog, pras, ptarget, paligned, pref,
                   prefbias, pmask, pmaskiso, ptrains, pfound, notSess>>

\* one iteration of "for p in paths": to_ras(p, work, write=not dry_run) and
\* the JSON sidecar
ToRas ==
    /\ ppc = "ras" /\ pi <= Len(ptree.files)
    /\ LET ras_p == InDir("work", ptree.files[pi], <<"ras">>)
       IN  /\ pras' = Append(pras, ras_p)
           /\ IF pcfg.dry_run
              THEN UNCHANGED <<pfs, plog>>
              ELSE /\ pfs' = pfs \cup {ras_p, Derived(ras_p, "work", "ras.json")}
                   /\ plog' = Append(plog, Ev("to_ras", InputPath(ptree.files[pi]),
                                              ras_p, NoPath, TRUE))
    /\ IF pi = Len(ptree.files)
       THEN ppc' = StageAfter("ras") /\ pi' = 1
       ELSE pi' = pi + 1 /\ UNCHANGED ppc
    /\ UNCHANGED <<ptree, pcfg, pruns, pfs0, ptarget, paligned, pref, prefbias,
                   pmask, pmaskiso, ptrains, pexc, pfound, notSess>>

\* target = choose_session_target(all_ras): nib.load of every reoriented file
ChooseTarget ==
    /\ ppc = "target"
    /\ IF \E i \in 1..Len(pras) : pras[i] \notin pfs
       THEN /\ ppc' = "raised" /\ pexc' = "FileNotFoundError"
            /\ UNCHANGED <<ptarget, pi>>
       ELSE /\ ptarget' = BestTarget(pras, 1, None).p
            /\ ppc' = StageAfter("target") /\ pi' = 1
            /\ UNCHANGED pexc
    /\ UNCHANGED <<ptree, pcfg, pruns, pfs, pfs0, plog, pras, paligned, pref,
                   prefbias, pmask, pmaskiso, ptrains, pfound, notSess>>

\* One operation on files: its record, what it reads, what it writes, and the
\* exception it raises when it fails ("none" for one that is taken not to
\* fail on readable input).
Step(ev, reads, writes, exc) == [ev |-> ev, reads |-> reads, writes |-> writes, exc |-> exc]

\* The operations of steps in order on the files fs, operation number k
\* failing (k = 0: none). An operation raises when a file it reads is missing
\* or when it is the one that fails; nothing after it runs.
RECURSIVE Perform(_, _, _)
Perform(steps, k, fs) ==
    IF steps = <<>> THEN [fs |-> fs, log |-> <<>>, exc |-> "none"]
    ELSE LET s == Head(steps)
         IN  IF ~(s.reads \subseteq fs)
             THEN [fs |-> fs, log |-> <<[s.ev EXCEPT !.ok = FALSE]>>,
                   exc |-> IF s.exc # "none" THEN s.exc ELSE "FileNotFoundError"]
             ELSE IF k = 1
             THEN [fs |-> fs, log |-> <<[s.ev EXCEPT !.ok = FALSE]>>, exc |-> s.exc]
             ELSE LET r == Perform(Tail(steps), k - 1, fs \cup s.writes)
                  IN  [fs |-> r.fs, log |-> <<s.ev>> \o r.log, exc |-> r.exc]

\* the operations that can fail: the external tools (subprocess.run with
\* check=True raises CalledProcessError on a nonzero exit), and SimpleITK
\* and matplotlib calls (RuntimeError)
FailPoints(steps) == {0} \cup {k \in 1..Len(steps) : steps[k].exc # "none"}

\* what one iteration of the coregistration loop does to mov
CoregSteps(mov) ==
    LET out_mov == AlignedName(mov)
        lta == Derived(out_mov, "work", "affineToTarget.lta")
        inv == Derived(out_mov, "work", "targetToMov.lta")
    IN  IF pcfg.dry_run THEN <<>>
        ELSE IF mov = ptarget
        THEN <<Step(Ev("copy2", mov, out_mov, NoPath, TRUE), {mov}, {out_mov}, "none"),
               Step(Ev("identity_lta", mov, lta, NoPath, TRUE), {}, {lta}, "none")>>
        ELSE <<Step(Ev("mri_coreg", mov, lta, ptarget, TRUE), {mov, ptarget}, {lta},
                    "CalledProcessError"),
               Step(Ev("mri_vol2vol", mov, out_mov, ptarget, TRUE), {mov, ptarget, lta},
                    {out_mov}, "CalledProcessError"),
               Step(Ev("lta_convert", lta, inv, NoPath, TRUE), {lta}, {inv},
                    "CalledProcessError")>>

\* one iteration of "for mov in paths": the target is copied, every other
\* file is registered to it, resampled on its grid, and the transform inverted
Coregister ==
    /\ ppc = "coreg" /\ pi <= Len(pras)
    /\ \E k \in FailPoints(CoregSteps(pras[pi])) :
          LET r == Perform(CoregSteps(pras[pi]), k, pfs)
          IN  /\ pfs' = r.fs
              /\ plog' = plog \o r.log
              /\ IF r.exc # "none"
                 THEN /\ ppc' = "raised" /\ pexc' = r.exc
                      /\ UNCHANGED <<pi, paligned>>
                 ELSE /\ paligned' = Append(paligned, AlignedName(pras[pi]))
                      /\ IF pi = Len(pras)
                         THEN ppc' = StageAfter("coreg") /\ pi' = 1
                         ELSE pi' = pi + 1 /\ UNCHANGED ppc
                      /\ UNCHANGED pexc
    /\ UNCHANGED <<ptree, pcfg, pruns, pfs0, pras, ptarget, pref, prefbias, pmask,
                   pmaskiso, ptrains, pfound, notSess>>

\* ref_img: the first aligned T1w, else the aligned target if that file
\* exists, else the first aligned volume
RefImg ==
    LET t1 == {i \in 1..Len(paligned) : Modality(paligned[i].base) = "T1w"}
    IN  IF t1 # {} THEN paligned[SetMin(t1)]
        ELSE IF AlignedName(ptarget) \in pfs THEN AlignedName(ptarget)
        ELSE paligned[1]

\* n4_bias_correct(in_file, work): the corrected volume and its JSON log
N4Steps(in_file) ==
    LET out == Derived(in_file, "work", "biascorr")
    IN  <<Step(Ev("n4_bias_correct", in_file, out, NoPath, TRUE), {in_file},
               {out, Derived(out, "work", "json")}, "none")>>

\* the mask reference and, with cfg.n4, its bias correction
SelectRef ==
    /\ ppc = "ref"
    /\ pref' = RefImg
    /\ prefbias' = IF pcfg.n4 THEN Derived(RefImg, "work", "biascorr") ELSE RefImg
    /\ LET r == Perform(IF pcfg.n4 /\ ~pcfg.dry_run THEN N4Steps(RefImg) ELSE <<>>, 0, pfs)
       IN  /\ pfs' = r.fs
           /\ plog' = plog \o r.log
           /\ IF r.exc # "none"
              THEN ppc' = "raised" /\ pexc' = r.exc
              ELSE ppc' = StageAfter("ref") /\ UNCHANGED pexc
    /\ UNCHANGED <<ptree, pcfg, pruns, pfs0, pi, pras, ptarget, paligned, pmask,
                   pmaskiso, ptrains, pfound, notSess>>

\* make_brain_mask(ref_bias, work): mri_watershed, mri_binarize, dilation
MaskSteps(in_file) ==
    LET out == Derived(in_file, "work", "brain_mask")
        mgz == Derived(in_file, "work", "brain_mask.mgz")
    IN  IF pcfg.dry_run THEN <<>>
        ELSE <<Step(Ev("mri_watershed", in_file, mgz, NoPath, TRUE), {in_file}, {mgz},
                    "CalledProcessError"),
               Step(Ev("mri_binarize", mgz, out, NoPath, TRUE), {mgz}, {out},
                    "CalledProcessError"),
               Step(Ev("dilate", out, out, NoPath, TRUE), {out}, {out}, "none")>>

MakeMask ==
    /\ ppc = "mask"
    /\ \E k \in FailPoints(MaskSteps(prefbias)) :
          LET r == Perform(MaskSteps(prefbias), k, pfs)
          IN  /\ pfs' = r.fs
              /\ plog' = plog \o r.log
              /\ IF r.exc # "none"
                 THEN ppc' = "raised" /\ pexc' = r.exc /\ UNCHANGED pmask
                 ELSE /\ pmask' = Derived(prefbias, "work", "brain_mask")
                      /\ ppc' = StageAfter("mask") /\ UNCHANGED pexc
    /\ UNCHANGED <<ptree, pcfg, pruns, pfs0, pi, pras, ptarget, paligned, pref,
                   prefbias, pmaskiso, ptrains, pfound, notSess>>

\* "if not cfg.dry_run": the mask on the training grid, moved to its
\* session-level name in final/
FinalMaskSteps ==
    LET mask_iso == Derived(pmask, "work", "iso_mask")
        tmp_mask == Derived(mask_iso, "final", "train")
    IN  IF pcfg.dry_run THEN <<>>
        ELSE <<Step(Ev("resample_isotropic_mask", pmask, mask_iso, NoPath, TRUE),
                    {pmask}, {mask_iso}, "RuntimeError"),
               Step(Ev("crop_or_pad_center", mask_iso, tmp_mask, NoPath, TRUE),
                    {mask_iso}, {tmp_mask}, "none"),
               Step(Ev("move", tmp_mask, MaskFinalPath, NoPath, TRUE),
                    {tmp_mask}, {MaskFinalPath}, "none")>>

FinalMask ==
    /\ ppc = "finalmask"
    /\ \E k \in FailPoints(FinalMaskSteps) :
          LET r == Perform(FinalMaskSteps, k, pfs)
              tmp_mask == Derived(Derived(pmask, "work", "iso_mask"), "final", "train")
          IN  /\ plog' = plog \o r.log
              /\ IF r.exc # "none"
                 THEN /\ ppc' = "raised" /\ pexc' = r.exc /\ pfs' = r.fs
                      /\ UNCHANGED <<pmaskiso, pi>>
                 ELSE /\ pfs' = IF pcfg.dry_run THEN r.fs ELSE r.fs \ {tmp_mask}
                      /\ pmaskiso' = IF pcfg.dry_run THEN pmaskiso
                                     ELSE Derived(pmask, "work", "iso_mask")
                      /\ ppc' = StageAfter("finalmask") /\ pi' = 1
                      /\ UNCHANGED pexc
    /\ UNCHANGED <<ptree, pcfg, pruns, pfs0, pras, ptarget, paligned, pref,
                   prefbias, pmask, ptrains, pfound, notSess>>

\* the paths of one volume's chain: cur, norm_p, iso, train
ChainCur(p) == IF pcfg.n4 /\ p # pref THEN Derived(p, "work", "biascorr") ELSE p
ChainNorm(p) == IF pcfg.normalize THEN Derived(ChainCur(p), "work", "norm") ELSE ChainCur(p)
ChainIso(p) == Derived(ChainNorm(p), "work", "iso")
ChainTrain(p) == Derived(ChainIso(p), "final", "train")

\* what one iteration of the volume loop does to the aligned volume p
VolumeSteps(p) ==
    IF pcfg.dry_run THEN <<>>
    ELSE (IF pcfg.n4 /\ p # pref THEN N4Steps(p) ELSE <<>>)
         \o (IF pcfg.normalize
             THEN <<Step(Ev("robust_normalize", ChainCur(p), ChainNorm(p), pmask, TRUE),
                         {ChainCur(p), pmask},
                         {ChainNorm(p), Derived(ChainNorm(p), "work", "json")}, "none")>>
             ELSE <<>>)
         \o <<Step(Ev("resample_isotropic", ChainNorm(p), ChainIso(p), NoPath, TRUE),
                   {ChainNorm(p)}, {ChainIso(p)}, "RuntimeError"),
              Step(Ev("crop_or_pad_center", ChainIso(p), ChainTrain(p), NoPath, TRUE),
                   {ChainIso(p)}, {ChainTrain(p)}, "none"),
              Step(Ev("save_mosaic", ChainTrain(p), Derived(ChainTrain(p), "work", "png"),
                      NoPath, TRUE),
                   {ChainTrain(p)}, {Derived(ChainTrain(p), "work", "png")}, "RuntimeError")>>

\* one iteration of "for p in paths" of the export loop
VolumeStep ==
    /\ ppc = "volumes" /\ pi <= Len(paligned)
    /\ \E k \in FailPoints(VolumeSteps(paligned[pi])) :
          LET r == Perform(VolumeSteps(paligned[pi]), k, pfs)
          IN  /\ pfs' = r.fs
              /\ plog' = plog \o r.log
              /\ IF r.exc # "none"
                 THEN /\ ppc' = "raised" /\ pexc' = r.exc
                      /\ UNCHANGED <<pi, ptrains>>
                 ELSE /\ ptrains' = Append(ptrains, ChainTrain(paligned[pi]))
                      /\ IF pi = Len(paligned)
                         THEN ppc' = StageAfter("volumes") /\ pi' = 1
                         ELSE pi' = pi + 1 /\ UNCHANGED ppc
                      /\ UNCHANGED pexc
    /\ UNCHANGED <<ptree, pcfg, pruns, pfs0, pras, ptarget, paligned, pref,
                   prefbias, pmask, pmaskiso, pfound, notSess>>

\* "if not cfg.dry_run": unlink the work mask and the isotropic work mask
Cleanup ==
    /\ ppc = "cleanup"
    /\ IF pcfg.dry_run
       THEN UNCHANGED <<pfs, plog>>
       ELSE /\ pfs' = pfs \ {pmask, pmaskiso}
            /\ plog' = plog \o <<Ev("unlink", pmask, NoPath, NoPath, TRUE),
                                 Ev("unlink", pmaskiso, NoPath, NoPath, TRUE)>>
    /\ ppc' = StageAfter("cleanup") /\ pi' = 1
    /\ UNCHANGED <<ptree, pcfg, pruns, pfs0, pras, ptarget, paligned, pref,
                   prefbias, pmask, pmaskiso, ptrains, pexc, pfound, notSess>>

\* process_session is run again on the same session and output directory,
\* with a configuration of its own
Rerun ==
    /\ ppc \in {"done", "raised"} /\ pruns < MaxRuns
    /\ ppc' = "start" /\ pruns' = pruns + 1
    /\ pcfg' \in Configs
    /\ pfs0' = pfs /\ plog' = <<>> /\ pi' = 0
    /\ pras' = <<>> /\ ptarget' = NoPath /\ paligned' = <<>> /\ pref' = NoPath
    /\ prefbias' = NoPath /\ pmask' = NoPath /\ pmaskiso' = NoPath
    /\ ptrains' = <<>> /\ pexc' = "none" /\ pfound' = NotRun
    /\ UNCHANGED <<ptree, pfs, notSess>>

\* make_wds run on the output root once process_session has returned or
\* raised: the discovery loop for this session
Discover ==
    /\ ppc \in {"done", "raised"} /\ pfound = NotRun
    /\ \E mods \in ModalityFilters :
          pfound' = [run |-> TRUE, mods |-> mods, samples |-> FindSamples(pfs, mods)]
    /\ UNCHANGED <<ppc, ptree, pcfg, pruns, pfs, pfs0, plog, pi, pras, ptarget,
                   paligned, pref, prefbias, pmask, pmaskiso, ptrains, pexc, notSess>>

SessNext ==
    \/ SessStart
    \/ ToRas
    \/ ChooseTarget
    \/ Coregister
    \/ SelectRef
    \/ MakeMask
    \/ FinalMask
    \/ VolumeStep
    \/ Cleanup
    \/ Rerun
    \/ Discover

vars == <<cropVars, bandVars, tgtVars, wdsVars, schedVars, normVars, sessVars>>

InitCrop == CropInit /\ BandIdle /\ TgtIdle /\ WdsIdle /\ SchedIdle /\ NormIdle /\ SessIdle
InitBand == BandInit /\ CropIdle /\ TgtIdle /\ WdsIdle /\ SchedIdle /\ NormIdle /\ SessIdle
InitTarget == TgtInit /\ CropIdle /\ BandIdle /\ WdsIdle /\ SchedIdle /\ NormIdle /\ SessIdle
InitWds == WdsInit /\ CropIdle /\ BandIdle /\ TgtIdle /\ SchedIdle /\ NormIdle /\ SessIdle
InitNorm == NormInit /\ CropIdle /\ BandIdle /\ TgtIdle /\ WdsIdle /\ SchedIdle /\ SessIdle
InitSession ==
    SessInit /\ CropIdle /\ BandIdle /\ TgtIdle /\ WdsIdle /\ SchedIdle /\ NormIdle
Init == SchedInit /\ CropIdle /\ BandIdle /\ TgtIdle /\ WdsIdle /\ NormIdle /\ SessIdle
BandNext == Extract

SpecCrop == InitCrop /\ [][CropNext]_vars
SpecBand == InitBand /\ [][BandNext]_vars
SpecTarget == InitTarget /\ [][TgtNext]_vars
SpecWds == InitWds /\ [][WdsNext]_vars
SpecNorm == InitNorm /\ [][NormNext]_vars
SpecSession == InitSession /\ [][SessNext]_vars
Spec == Init /\ [][Next]_vars

\* ------------------------------------------------------------ claims C7-C10

\* where output voxel p of crop_or_pad_center comes from in the input, axis n:
\* shifted back by the leading pad floor(max(t - c, 0) / 2) and forward by the
\* crop start max(floor((c - t) / 2), 0)
SourceIndex(pn, cn, tn) == pn - (Max(tn - cn, 0) \div 2) + Max((cn - tn) \div 2, 0)

\* C7: crop_or_pad_center returns a volume of exactly the target shape, or of
\* (current depth, H, W) when keep_depth is set or the configured depth is a
\* placeholder (<= 1); on every axis the leading pad is floor(max(target -
\* current, 0) / 2), the trailing pad the remainder, and the crop window starts
\* at max(floor((current - target) / 2), 0): each output voxel is the input
\* voxel at that offset, or 0 where the offset falls in the padding.
C7_CropPadShape ==
    cpc \in {"once", "twice", "sliced"} =>
        LET cur == cin.shape
            want == IF ckeep \/ ctarget[1] <= 1
                    THEN <<cur[1], ctarget[2], ctarget[3]>>
                    ELSE ctarget
        IN  /\ cout1.shape = want
            /\ \A p \in Idx(want) :
                  LET q == <<SourceIndex(p[1], cur[1], want[1]),
                             SourceIndex(p[2], cur[2], want[2]),
                             SourceIndex(p[3], cur[3], want[3])>>
                  IN  cout1.v[p] = IF q \in Idx(cur) THEN AsFloat32(cin.v[q]) ELSE 0

\* depth padded by two, H padded by an odd amount, W cropped
C7_Witness ==
    /\ cpc = "once" /\ ~ckeep
    /\ cin.shape = <<1, 2, 3>> /\ ctarget = <<3, 3, 2>>
    /\ cout1.shape = <<3, 3, 2>>

\* C8: crop_or_pad_center applied again to its own output, with the same
\* target shape and keep_depth, returns the same array: same shape, same values.
C8_Idempotent == cpc = "twice" => cout2 = cout1

\* the first application both padded and cropped its input, and rounded values
C8_Witness ==
    /\ cpc = "twice"
    /\ cin.shape[2] < cout1.shape[2] /\ cin.shape[3] > cout1.shape[3]
    /\ \E p \in Idx(cout1.shape) : cout1.v[p] > F32Exact

\* C9: for a training tensor and final mask made with keep-depth on and in-plane
\* shape (H,W), extract_slices with count N and no resize returns stacks of
\* shape N x H x W.
C9_StackIsNxHxW ==
    (cpc = "sliced" /\ ckeep /\ cslices.kind = "ok") =>
        cslices.slices_shape = <<DefaultCount, ctarget[2], ctarget[3]>>

\* the band a mask has by the definition of section 4.5: first index whose
\* coverage reaches the clamped start threshold, last index whose coverage
\* reaches the clamped end threshold
Covered(mask, z) ==
    Cardinality({ij \in (0 .. mask.shape[1] - 1) \X (0 .. mask.shape[2] - 1) :
                    mask.v[<<ij[1], ij[2], z>>] # 0})
Reaches(mask, z, pct) ==
    Covered(mask, z) * 100 >= Max(0, Min(100, pct)) * (mask.shape[1] * mask.shape[2])
Depths(mask) == 0 .. mask.shape[3] - 1

\* C10: z_start is the first depth index whose coverage is >= the clamped start
\* threshold, z_end the last whose coverage is >= the clamped end threshold, and
\* without a qualifying index on either side the result is "no coverage"; a full
\* mask with threshold 0 gives [0, depth-1]; one contiguous fully covered block
\* in an empty background, with thresholds above 0 and at most the block's
\* coverage, gives the block's bounds; coverage below both thresholds
\* everywhere gives "no coverage".
C10_BandFirstLast ==
    (bpc = "extracted" /\ bvolshape = bmask.shape) =>
        LET S == {z \in Depths(bmask) : Reaches(bmask, z, bspec.start_thr)}
            E == {z \in Depths(bmask) : Reaches(bmask, z, bspec.end_thr)}
            d == bmask.shape[3]
            size == bmask.shape[1] * bmask.shape[2]
        IN  /\ (S = {} \/ E = {}) => bout = None
            /\ (S # {} /\ E # {}) =>
                  /\ bout.kind = "ok"
                  /\ bout.z0 \in S /\ \A z \in S : bout.z0 <= z
                  /\ bout.z1 \in E /\ \A z \in E : bout.z1 >= z
            /\ ((\A p \in Idx(bmask.shape) : bmask.v[p] # 0)
                /\ bspec.start_thr = 0 /\ bspec.end_thr = 0) =>
                  (bout.kind = "ok" /\ bout.z0 = 0 /\ bout.z1 = d - 1)
            /\ \A lo \in Depths(bmask), hi \in Depths(bmask) :
                  (/\ lo <= hi
                   /\ \A z \in Depths(bmask) :
                         Covered(bmask, z) = IF z \in lo..hi THEN size ELSE 0
                   /\ bspec.start_thr \in 1..100 /\ bspec.end_thr \in 1..100) =>
                     (bout.kind = "ok" /\ bout.z0 = lo /\ bout.z1 = hi)
            /\ (\A z \in Depths(bmask) :
                   /\ ~Reaches(bmask, z, bspec.start_thr)
                   /\ ~Reaches(bmask, z, bspec.end_thr)) =>
                  bout = None

\* a band strictly inside the depth range, found with two different thresholds
C10_Witness ==
    /\ bpc = "extracted" /\ bout.kind = "ok"
    /\ bmask.shape[3] = 3 /\ bout.z0 = 1 /\ bout.z1 = 1
    /\ bspec.start_thr = 50 /\ bspec.end_thr = 100

\* ------------------------------------------------------------------ claim C6

TgtDistinct == \A i \in 1..Len(tfiles), j \in 1..Len(tfiles) :
    i # j => VoxVol(tfiles[i]) # VoxVol(tfiles[j])
TgtApart == \A i \in 1..Len(tfiles), j \in 1..Len(tfiles) :
    i # j => ~IsClose(VoxVol(tfiles[i]), VoxVol(tfiles[j]))
TgtIsMinimum ==
    \A i \in 1..Len(tfiles) : tbest.voxvol <= VoxVol(tfiles[i])

\* C6 as stated: whenever the candidates' voxel volumes are pairwise distinct,
\* the candidate of minimum voxel volume is returned, in every order of the list.
C6_DistinctGivesMinimum == (tpc = "done" /\ TgtDistinct) => TgtIsMinimum

\* C6 as amended: whenever the candidates' voxel volumes pairwise differ by
\* more than the np.isclose tolerance, the candidate of minimum voxel volume is
\* returned, in every order of the list.
C6_ApartGivesMinimum ==
    (tpc = "done" /\ TgtApart) =>
        /\ TgtIsMinimum
        /\ \E i \in 1..Len(tfiles) : tfiles[i] = tbest.p /\ VoxVol(tfiles[i]) = tbest.voxvol

\* three candidates, the finest last, the largest matrix not the finest
C6_Witness ==
    /\ tpc = "done" /\ TgtApart /\ Len(tfiles) = 3
    /\ tbest.p = tfiles[3] /\ tbest.p = "t2" /\ tfiles[1] = "flair"

\* --------------------------------------------------------------- claims C2-C5

WdsReturned == wpc = "done"
WdsEnded == wpc \in {"done", "ValueError"}
InShard(k, it) == \E n \in 1..Len(wshards[k].items) : wshards[k].items[n] = it
Recorded(it) ==
    \E k \in 1..Len(wshards) : \E n \in 1..Len(wshards[k].records) :
        wshards[k].records[n] = it
RECURSIVE AllItems(_)
AllItems(k) == IF k = 0 THEN <<>> ELSE AllItems(k - 1) \o wshards[k].items
RECURSIVE RecordCount(_)
RecordCount(k) == IF k = 0 THEN 0 ELSE RecordCount(k - 1) + Len(wshards[k].records)
RECURSIVE SubjectsInOrder(_)
SubjectsInOrder(sub) ==
    IF sub = 0 THEN <<>> ELSE SubjectsInOrder(sub - 1) \o BySubject(sub)

\* C2: a volume/mask shape mismatch loses that one sample only: when make_wds
\* has ended, every sample whose files extract_slices can slice has its record
\* in a shard.
C2_OnlyMismatchedSampleLost ==
    WdsEnded => \A it \in 1..Len(wsamples) : wsamples[it].files = "brain" => Recorded(it)

\* C3: in subject-grouped packing no written shard holds more than shard_size
\* samples, unless it consists of the samples of exactly one subject whose own
\* count exceeds shard_size.
C3_GroupedCapacity ==
    wgroup => \A k \in 1..Len(wshards) :
        Len(wshards[k].items) > wshard_size =>
            \E sub \in 1..NumSubjects :
                /\ wshards[k].items = BySubject(sub)
                /\ Len(BySubject(sub)) > wshard_size

\* a two-sample subject written alone with shard_size 1, after a flushed shard
C3_Witness ==
    /\ wgroup /\ wpc = "done" /\ Len(wshards) = 2 /\ wshard_size = 1
    /\ Len(wshards[2].items) = 2 /\ Len(wshards[2].records) = 2

\* C4: in subject-grouped packing, when make_wds returns every discovered
\* sample has been assigned to exactly one shard (and to at most one at any
\* time), all samples of a subject whose count is at most shard_size are in one
\* shard, and the subjects were consumed in sorted order whatever the order of
\* discovery: the shards, read in order, hold subject 1's samples, then
\* subject 2's, and so on.
C4_GroupedAssignment ==
    wgroup =>
        /\ \A it \in 1..Len(wsamples) :
              Cardinality({k \in 1..Len(wshards) : InShard(k, it)}) <= 1
        /\ WdsReturned =>
              /\ \A it \in 1..Len(wsamples) :
                    Cardinality({k \in 1..Len(wshards) : InShard(k, it)}) = 1
              /\ \A sub \in 1..NumSubjects :
                    (BySubject(sub) # <<>> /\ Len(BySubject(sub)) <= wshard_size) =>
                        \E k \in 1..Len(wshards) :
                            \A n \in 1..Len(BySubject(sub)) : InShard(k, BySubject(sub)[n])
              /\ AllItems(Len(wshards)) = SubjectsInOrder(NumSubjects)

\* subject 2 discovered first; both subjects share the one shard
C4_Witness ==
    /\ wgroup /\ wpc = "done" /\ Len(wsamples) = 3
    /\ wsamples[1].sub = 2 /\ wsamples[2].sub = 1 /\ wsamples[3].sub = 2
    /\ Len(wshards) = 1 /\ wshards[1].items = <<2, 1, 3>>

\* C5: in flat packing the k-th shard written is numbered start_index + (k-1)
\* and holds the k-th contiguous chunk of shard_size samples in discovery order
\* (the last chunk possibly shorter), so no shard holds more than shard_size;
\* when make_wds returns, the chunks cover all samples and the records of all
\* shards number the samples not dropped for lack of coverage.
C5_FlatChunks ==
    ~wgroup =>
        /\ \A k \in 1..Len(wshards) :
              /\ wshards[k].idx = wstart_index + (k - 1)
              /\ Len(wshards[k].items) <= wshard_size
              /\ Len(wshards[k].items) =
                    Min(wshard_size, Len(wsamples) - (k - 1) * wshard_size)
              /\ \A n \in 1..Len(wshards[k].items) :
                    wshards[k].items[n] = (k - 1) * wshard_size + n
        /\ WdsReturned =>
              /\ AllItems(Len(wshards)) = [n \in 1..Len(wsamples) |-> n]
              /\ RecordCount(Len(wshards)) =
                    Cardinality({it \in 1..Len(wsamples) : ExtractItem(it) # None})

\* three samples in two chunks from shard 5 on, one sample without coverage
C5_Witness ==
    /\ ~wgroup /\ wpc = "done" /\ Len(wsamples) = 3 /\ wshard_size = 2
    /\ wstart_index = 5 /\ Len(wshards) = 2 /\ wshards[2].idx = 6
    /\ wsamples[2].files = "empty" /\ RecordCount(2) = 2

\* ------------------------------------------------------------------ claim C1

LinesFor(k) == {n \in 1..Len(sprinted) : sprinted[n].item = k}

\* C1: in serial and in pool mode, whichever work items fail and at whatever
\* stage, no exception leaves run_structprep; no item is run or reported more
\* than once; and when run_structprep returns, every work item has been run,
\* and has exactly one line, which names the item's own subject and session
\* and says Completed exactly when that session's process_session returns and
\* Failed when it raises, whatever happened to the other items.
C1_FailureIsolation ==
    /\ spc # "raised"
    /\ \A k \in 1..Len(swork) : sexec[k] <= 1 /\ Cardinality(LinesFor(k)) <= 1
    /\ \A n \in 1..Len(sprinted) :
          LET k == sprinted[n].item
          IN  /\ sprinted[n].sub = swork[k].sub /\ sprinted[n].ses = swork[k].ses
              /\ sprinted[n].mark = "Completed"
                    <=> ProcessSession(swork[k].sub, swork[k].ses) = "ok"
    /\ spc = "returned" =>
          \A k \in 1..Len(swork) : sexec[k] = 1 /\ Cardinality(LinesFor(k)) = 1

\* pool mode: a failed session reported before a completed one that was
\* submitted ahead of it, a tool failure among the failures
C1_Witness ==
    /\ spc = "returned" /\ MaxWorkers = 2 /\ Len(swork) = 4
    /\ sprinted[1].mark = "Failed" /\ sprinted[1].item = 2
    /\ sprinted[2].mark = "Completed" /\ sprinted[2].item = 1
    /\ ProcessSession(swork[2].sub, swork[2].ses) = "CalledProcessError"
    /\ sprinted[4].mark = "Failed"

\* ------------------------------------------------------- claims C11 and C18

NonDecreasing(q) == \A i \in 1..Len(q), j \in 1..Len(q) : i <= j => q[i] <= q[j]

\* C11: whenever extract_slices returns a sample, 0 <= z_start <= z_end <=
\* depth-1, there are count indices, they are non-decreasing and every one lies
\* in [z_start, z_end]; and the first index qualifying for the start threshold
\* is never after the last index qualifying for the end threshold, whichever
\* threshold is the larger.
C11_IndicesInBand ==
    (bpc = "extracted" /\ bout.kind = "ok") =>
        LET S == {z \in Depths(bmask) : Reaches(bmask, z, bspec.start_thr)}
            E == {z \in Depths(bmask) : Reaches(bmask, z, bspec.end_thr)}
        IN  /\ 0 <= bout.z0 /\ bout.z0 <= bout.z1 /\ bout.z1 <= bmask.shape[3] - 1
            /\ Len(bout.indices) = bspec.count
            /\ \A i \in 1..Len(bout.indices) : bout.indices[i] \in bout.z0 .. bout.z1
            /\ NonDecreasing(bout.indices)
            /\ \A a \in S, b \in E :
                  ((\A z \in S : a <= z) /\ (\A z \in E : b >= z)) => a <= b

\* the start threshold the larger one, a band of three positions, five indices
C11_Witness ==
    /\ bpc = "extracted" /\ bout.kind = "ok"
    /\ bspec.start_thr = 100 /\ bspec.end_thr = 50 /\ bspec.count = 5
    /\ bout.z0 = 0 /\ bout.z1 = 2 /\ bout.indices = <<0, 0, 1, 1, 2>>

\* x is an integer nearest to num/den (den > 0); at a tie both neighbours are
Nearest(x, num, den) == 2 * Abs(x * den - num) <= den

\* C18: the indices are exactly n values, the i-th (i = 0..n-1) being
\* z_start + i*(z_end - z_start)/(n-1) rounded to the nearest integer, the
\* first z_start and for n >= 2 the last z_end; an index repeats only when the
\* band holds fewer than n positions.
C18_NearestIndices ==
    (bpc = "extracted" /\ bout.kind = "ok") =>
        LET a == bout.z0
            b == bout.z1
            n == bspec.count
            idx == bout.indices
        IN  /\ Len(idx) = n
            /\ idx[1] = a
            /\ n >= 2 => idx[n] = b
            /\ n >= 2 => \A i \in 1..n :
                  Nearest(idx[i], a * (n - 1) + (i - 1) * (b - a), n - 1)
            /\ (\E i \in 1..n, j \in 1..n : i # j /\ idx[i] = idx[j]) => b - a + 1 < n

\* ------------------------------------------------------------------ claim C12

\* extract_slices raises for an item of shard k before position m
RaisedBefore(k, m) ==
    \E n \in 1..(m - 1) : ExtractItem(wshards[k].items[n]).kind = "ValueError"

\* C12: a sample for which extract_slices finds no coverage gets no record and
\* raises nothing: make_wds never ends in an exception at such a sample, and
\* every sample after it, in its shard and in later shards, is extracted in
\* turn and, having coverage, written. (Only a sample whose extraction itself
\* raises ends the run.)
C12_NoCoverageSkipped ==
    /\ \A it \in 1..Len(wsamples) : ExtractItem(it) = None => ~Recorded(it)
    /\ \A k \in 1..Len(wshards) : \A m \in 1..Len(wshards[k].items) :
          (ExtractItem(wshards[k].items[m]).kind = "ok" /\ ~RaisedBefore(k, m)) =>
              Recorded(wshards[k].items[m])
    /\ wpc = "ValueError" =>
          /\ wshards # <<>>
          /\ RaisedBefore(Len(wshards), Len(wshards[Len(wshards)].items) + 1)
    /\ (wpc = "done" /\ \A it \in 1..Len(wsamples) : ExtractItem(it).kind # "ValueError") =>
          \A it \in 1..Len(wsamples) : ExtractItem(it).kind = "ok" => Recorded(it)

\* a sample without coverage first in its shard, the sample after it in the
\* shard and the sample of the next shard both written
C12_Witness ==
    /\ ~wgroup /\ wpc = "done" /\ wshard_size = 2 /\ Len(wsamples) = 3
    /\ wsamples[1].files = "empty" /\ ~Recorded(1)
    /\ Len(wshards) = 2 /\ wshards[1].records = <<2>> /\ wshards[2].records = <<3>>

\* ------------------------------------------------------------------ claim C19

\* the position of file p in ras_files
TgtPos(p) == CHOOSE i \in 1..Len(tfiles) : tfiles[i] = p

\* candidate i is tied with the returned candidate in voxel volume
TiedWithBest(i) == IsClose(VoxVol(tfiles[i]), tbest.voxvol)

\* C19: the candidate returned has the largest voxel count among the candidates
\* tied with it in voxel volume within the tolerance, in every order of the
\* list; among those tied with it in volume and in count it is the first of
\* the list; and an empty list, and only an empty list, fails the assertion.
C19_TieBreak ==
    /\ tpc = "done" =>
          \A i \in 1..Len(tfiles) :
              TiedWithBest(i) =>
                  /\ MatSz(tfiles[i]) <= tbest.matsz
                  /\ MatSz(tfiles[i]) = tbest.matsz => TgtPos(tbest.p) <= i
    /\ tpc = "AssertionError" <=> (tpc \notin {"idle", "loop"} /\ tfiles = <<>>)

\* ------------------------------------------------------------------ claim C20

\* C20: robust_normalize ends without raising whatever the QC conditions; the
\* sidecar holds the small-mask warning whenever the mask passed in has fewer
\* than 10,000 voxels, also when it has fewer than 10 and the statistics fall
\* back to the whole volume; and it holds the over-coverage warning exactly
\* when the mask's voxel count exceeds 0.9 of the volume's voxel count.
C20_QcWarnings ==
    (npc = "done" /\ ~ndry) =>
        /\ nstats # None
        /\ nmask < SmallMaskBelow => "Very small mask voxel count" \in nstats.warnings
        /\ "Mask covers >90% of volume" \in nstats.warnings
              <=> nmask * 100 > OverCoveragePct * nvol

\* ------------------------------------------------------- claims C13 to C17

HasTag(p, t) == \E n \in 1..Len(p.tags) : p.tags[n] = t
OpsAt(op) == {j \in 1..Len(plog) : plog[j].op = op /\ plog[j].ok}
ValidInput == ptree.anat /\ ptree.files # <<>>

\* C13: in dry-run mode process_session runs no external tool and no
\* processing step, and creates or modifies nothing: the files and
\* directories under the output root are those that were there before the run.
C13_DryRunNoEffect ==
    (ppc # "idle" /\ pcfg.dry_run) => (plog = <<>> /\ pfs = pfs0)

\* C14: in dry-run mode a session with an anat directory and at least one
\* requested modality file, on an output directory holding no earlier results,
\* never fails: it passes every stage and, when process_session returns, has
\* computed the destination path of every volume's training tensor.
C14_DryRunCompletes ==
    (pcfg.dry_run /\ ValidInput /\ pfs0 = {}) =>
        /\ ppc # "raised"
        /\ ppc = "done" => Len(ptrains) = Len(ptree.files)

\* C16: with bias correction enabled, when process_session returns every
\* aligned volume, the mask reference included, has been bias-corrected
\* exactly once, and every training tensor is made from the bias-corrected
\* version of its volume.
C16_AllBiasCorrected ==
    (ppc = "done" /\ pcfg.n4) =>
        /\ ~pcfg.dry_run =>
              \A m \in 1..Len(paligned) :
                  Cardinality({j \in OpsAt("n4_bias_correct") :
                                  plog[j].src = paligned[m]}) = 1
        /\ \A m \in 1..Len(ptrains) : HasTag(ptrains[m], "biascorr")

\* C17: whenever a normalization has started, every non-target volume was
\* coregistered and resampled before it and the brain mask was computed
\* before it, once in the session and on the mask reference (its
\* bias-corrected version when bias correction is on); every normalization
\* reads that one mask; and the work mask is deleted only after every aligned
\* volume has been normalized.
C17_StageOrder ==
    /\ Cardinality({j \in 1..Len(plog) : plog[j].op = "mri_watershed"}) <= 1
    /\ \A j \in 1..Len(plog) : plog[j].op = "mri_watershed" =>
          /\ plog[j].src = prefbias
          /\ prefbias = IF pcfg.n4 THEN Derived(pref, "work", "biascorr") ELSE pref
    /\ \A i \in 1..Len(plog) : plog[i].op = "robust_normalize" =>
          /\ \A m \in 1..Len(ptree.files) :
                LET mov == InDir("work", ptree.files[m], <<"ras">>)
                IN  mov # ptarget =>
                      /\ \E j \in OpsAt("mri_coreg") : j < i /\ plog[j].src = mov
                      /\ \E j \in OpsAt("mri_vol2vol") : j < i /\ plog[j].src = mov
          /\ \E j \in OpsAt("mri_binarize") : j < i /\ plog[j].dst = plog[i].aux
          /\ plog[i].aux = pmask
          /\ plog[i].ok
          /\ \A j \in OpsAt("unlink") : plog[j].src = pmask => i < j
    /\ \A j \in OpsAt("unlink") :
          (plog[j].src = pmask /\ pcfg.normalize) =>
              \A m \in 1..Len(ptree.files) :
                  \E i \in OpsAt("robust_normalize") :
                      i < j /\ plog[i].src = ChainCur(AlignedName(InDir("work", ptree.files[m], <<"ras">>)))

\* three modalities, the T2w the target, all normalized with the one mask
\* and the work mask removed at the end
C17_Witness ==
    /\ ppc = "done" /\ ~pcfg.dry_run /\ pcfg.normalize /\ pcfg.n4
    /\ Len(ptree.files) = 3 /\ ptarget.base = "T2w_1" /\ pref.base = "T1w_1"
    /\ Cardinality(OpsAt("robust_normalize")) = 3
    /\ Cardinality(OpsAt("mri_coreg")) = 2
    /\ pmask \notin pfs /\ MaskFinalPath \in pfs

\* ------------------------------------------------------------------ claim C15

ItemDir(k) == OutAnat(swork[k].sub, swork[k].ses)
ItemWrites(k) == WritesOutput(swork[k].sub, swork[k].ses)

\* C15: for every subject list and every explicit or discovered session
\* list, the work items that write anything write to pairwise different
\* output directories, and in pool mode no two workers running at the same
\* time write to the same work/ and final/ directories.
C15_DisjointOutputs ==
    /\ \A k1 \in 1..Len(swork), k2 \in 1..Len(swork) :
          (k1 # k2 /\ ItemWrites(k1) /\ ItemWrites(k2)) => ItemDir(k1) # ItemDir(k2)
    /\ \A k1 \in Running, k2 \in Running :
          (k1 # k2 /\ ItemWrites(k1) /\ ItemWrites(k2)) => ItemDir(k1) # ItemDir(k2)

\* ---------------------------------------------------------------- claim C21

\* C21: when process_session, run once on an output directory that held
\* nothing for the session, has raised, make_wds run afterwards on that
\* output root gathers no sample of the session.
C21_FailedNotDiscovered ==
    (ppc = "raised" /\ pruns = 1 /\ pfound.run) => pfound.samples = {}

====
